---- MODULE Spec2Model ----
(***************************************************************************)
(* Dual-store article synchronisation of webook: the service facade        *)
(* (internal/service/article.go) and the repositories                      *)
(* (internal/repository/article).  The two stores are the draft table      *)
(* (author side) and the published table (reader side).  Each action is    *)
(* one call of the facade, with the store failures it meets given as an    *)
(* input.                                                                  *)
(***************************************************************************)
EXTENDS Integers, Sequences, FiniteSets, TLC

VARIABLES draft, pub, nextId, last, calls, procs

vars == <<draft, pub, nextId, last, calls, procs>>

\* ---------------------------------------------------------------- bounds
\* Largest identity the draft store hands out.
MaxId == 1
\* Number of facade calls in one behaviour.
MaxCalls == 2

\* ------------------------------------------------------- program constants
\* The retry bound of PublishV1's loop.
MaxAttempts == 3
\* uint8 has 256 values.
Uint8Range == 256

\* domain.ArticleStatus; 0 is the zero value of the stored uint8.
ArticleStatusUnknown == 0
ArticleStatusUnpublished == 1
ArticleStatusPublished == 2
ArticleStatusPrivate == 3

\* ------------------------------------------------------------ value sets
None == "None"
ErrNotFound == "NotFound"
ErrForbidden == "Forbidden"
ErrUnavailable == "Unavailable"

Ids == 1..MaxId
\* Identities a caller may pass: 0 (not yet created), existing or not yet
\* assigned positive ones, and a negative one.
InputIds == (-1)..MaxId
Authors == {1, 2}
Titles == {"A", "B"}
Contents == {"x", "y"}
\* The status a caller's article carries.
InputStatuses == {ArticleStatusUnpublished, ArticleStatusPublished}

\* domain.Article values the callers pass: title, content and status vary
\* together (a draft "A", a published "B"), the author independently, and one
\* article carries the negative identity.
Articles ==
  {a \in [id : InputIds, title : Titles, content : Contents,
          author : Authors, status : InputStatuses] :
     /\ (a.title = "A") <=> (a.content = "x")
     /\ (a.title = "A") <=> (a.status = ArticleStatusUnpublished)
     /\ a.id < 0 => (a.title = "B" /\ a.author = 1)}

\* What the stores answer at each step of one call: the error of Begin, of
\* the draft write, of each published write in turn, and of Commit.
NoFail == [begin |-> None, draft |-> None, pub |-> [i \in 1..MaxAttempts |-> None], commit |-> None]
FailBegin == [NoFail EXCEPT !.begin = ErrUnavailable]
FailDraft == [NoFail EXCEPT !.draft = ErrUnavailable]
FailCommit == [NoFail EXCEPT !.commit = ErrUnavailable]
\* The published store rejects the first k writes and accepts the others.
FailPub(k) == [NoFail EXCEPT !.pub = [i \in 1..MaxAttempts |-> IF i <= k THEN ErrUnavailable ELSE None]]

\* ----------------------------------------------------------------- helpers
DB(d, p, n) == [draft |-> d, pub |-> p, nextId |-> n]
\* The answer of a store call.
Ans(st, id, err) == [st |-> st, id |-> id, err |-> err]
\* One entry of the record of calls a facade call made to its collaborators.
Call(name, id, err) == [call |-> name, id |-> id, err |-> err]
\* The result of a repository or service call.
Ret(st, id, err, trace) == [st |-> st, id |-> id, err |-> err, trace |-> trace]

\* ------------------------------------------------------ entity conversion
\* domain.ArticleStatus.ToUint8.
ToUint8(status) == status % Uint8Range

\* CachedArticleRepository.toEntity: every field is copied, the status as uint8.
toEntity(art) ==
  [id |-> art.id, title |-> art.title, content |-> art.content,
   author |-> art.author, status |-> art.status % Uint8Range]

\* CachedArticleAuthorRepository.toEntity: Status is not set, so the record
\* carries the zero value.
AuthorToEntity(art) ==
  [id |-> art.id, title |-> art.title, content |-> art.content,
   author |-> art.author, status |-> ArticleStatusUnknown]

\* The published-side repository converts the whole article.
ReaderToEntity(art) ==
  [id |-> art.id, title |-> art.title, content |-> art.content,
   author |-> art.author, status |-> art.status % Uint8Range]

\* ------------------------------------------------------- the store adapters
\* Draft store: Insert assigns and returns a new identity.
Insert(st, rec, fail) ==
  IF fail # None THEN Ans(st, 0, fail)
  ELSE Ans([st EXCEPT !.draft = (st.nextId :> [rec EXCEPT !.id = st.nextId]) @@ @,
                      !.nextId = @ + 1],
           st.nextId, None)

\* Draft store: UpdateById replaces the row of an existing identity.
UpdateById(st, rec, fail) ==
  IF fail # None THEN Ans(st, 0, fail)
  ELSE IF rec.id \notin DOMAIN st.draft THEN Ans(st, 0, ErrNotFound)
  ELSE Ans([st EXCEPT !.draft = (rec.id :> rec) @@ @], rec.id, None)

\* Published store: insert if absent, else replace the row of that identity.
Upsert(st, rec, fail) ==
  IF fail # None THEN Ans(st, 0, fail)
  ELSE Ans([st EXCEPT !.pub = (rec.id :> rec) @@ @], rec.id, None)

\* Published store, inside the caller's transaction: same semantics.
UpsertV2(st, rec, fail) == Upsert(st, rec, fail)

\* Status only: the author must match; every store holding the row gets the
\* new status and nothing else changes.
DaoSyncStatus(st, uid, id, status, fail) ==
  IF fail # None THEN Ans(st, 0, fail)
  ELSE IF id \notin DOMAIN st.draft THEN Ans(st, 0, ErrNotFound)
  ELSE IF st.draft[id].author # uid THEN Ans(st, 0, ErrForbidden)
  ELSE Ans([st EXCEPT !.draft[id].status = status,
                      !.pub = [i \in DOMAIN @ |->
                                 IF i = id THEN [@[i] EXCEPT !.status = status] ELSE @[i]]],
           id, None)

\* Single store doing both writes itself, both or neither.
DaoSync(st, rec, env) ==
  LET w == IF rec.id = 0 THEN Insert(st, rec, env.draft) ELSE UpdateById(st, rec, env.draft)
      id == IF rec.id = 0 THEN w.id ELSE rec.id
      u == Upsert(w.st, [rec EXCEPT !.id = id], env.pub[1])
  IN IF w.err # None THEN Ans(st, 0, w.err)
     ELSE IF u.err # None THEN Ans(st, 0, u.err)
     ELSE Ans(u.st, id, None)

\* ------------------------------------------------------------- transaction
\* A transaction works on a copy of the stores; Commit installs the copy,
\* Rollback drops it, and either closes the transaction.
TxBegin(st) == [base |-> st, work |-> st, open |-> TRUE]
TxCommit(tx, fail) ==
  [tx |-> [tx EXCEPT !.open = FALSE, !.base = IF fail = None THEN tx.work ELSE @],
   err |-> fail]
\* A rollback of a closed transaction changes nothing and answers an error.
TxRollback(tx) ==
  [tx |-> [tx EXCEPT !.open = FALSE], err |-> IF tx.open THEN None ELSE "TxDone"]
\* What is stored once the transaction is closed.
TxStored(tx) == tx.base

\* -------------------------------------------------------------- repository
\* CachedArticleRepository.SyncStatus.
SyncStatus(st, uid, id, status, env) ==
  LET r == DaoSyncStatus(st, uid, id, ToUint8(status), env.draft)
  IN Ret(r.st, id, r.err, <<Call("SyncStatus", id, r.err)>>)

\* CachedArticleRepository.Sync: the single store does both writes.
Sync(st, art, env) ==
  LET r == DaoSync(st, toEntity(art), env)
  IN Ret(r.st, r.id, r.err, <<Call("Sync", r.id, r.err)>>)

\* SyncV1 without artn.Id = id before the published write.
Mut_SyncV1_IdNotCopied(st, art, env) ==
  LET artn == toEntity(art)
      w == IF art.id = 0 THEN Insert(st, artn, env.draft)
                         ELSE UpdateById(st, artn, env.draft)
      id == IF art.id = 0 THEN w.id ELSE art.id
      t1 == <<Call(IF art.id = 0 THEN "Insert" ELSE "UpdateById", id, w.err)>>
      u == Upsert(w.st, artn, env.pub[1])
  IN IF w.err # None THEN Ret(w.st, 0, w.err, t1)
     ELSE Ret(u.st, id, u.err, t1 \o <<Call("Upsert", artn.id, u.err)>>)

\* SyncV1 deciding create or update by id > 0, as Save does.
Mut_SyncV1_CreateUnlessPositive(st, art, env) ==
  LET artn == toEntity(art)
      w == IF art.id <= 0 THEN Insert(st, artn, env.draft)
                          ELSE UpdateById(st, artn, env.draft)
      id == IF art.id <= 0 THEN w.id ELSE art.id
      t1 == <<Call(IF art.id <= 0 THEN "Insert" ELSE "UpdateById", id, w.err)>>
      artp == [artn EXCEPT !.id = id]
      u == Upsert(w.st, artp, env.pub[1])
  IN IF w.err # None THEN Ret(w.st, 0, w.err, t1)
     ELSE Ret(u.st, id, u.err, t1 \o <<Call("Upsert", artp.id, u.err)>>)

\* SyncV1 without the check of err after the draft write: only a failed
\* insert returns early.
Mut_SyncV1_UpdateErrIgnored(st, art, env) ==
  LET artn == toEntity(art)
      w == IF art.id = 0 THEN Insert(st, artn, env.draft)
                         ELSE UpdateById(st, artn, env.draft)
      id == IF art.id = 0 THEN w.id ELSE art.id
      t1 == <<Call(IF art.id = 0 THEN "Insert" ELSE "UpdateById", id, w.err)>>
      artp == [artn EXCEPT !.id = id]
      u == Upsert(w.st, artp, env.pub[1])
  IN IF art.id = 0 /\ w.err # None THEN Ret(w.st, 0, w.err, t1)
     ELSE Ret(u.st, id, u.err, t1 \o <<Call("Upsert", artp.id, u.err)>>)

\* SyncV1 that inserts a new draft row whatever the identity.
Mut_SyncV1_AlwaysCreate(st, art, env) ==
  LET artn == toEntity(art)
      w == Insert(st, artn, env.draft)
      t1 == <<Call("Insert", w.id, w.err)>>
      u == Upsert(w.st, [artn EXCEPT !.id = w.id], env.pub[1])
  IN IF w.err # None THEN Ret(w.st, 0, w.err, t1)
     ELSE Ret(u.st, w.id, u.err, t1 \o <<Call("Upsert", w.id, u.err)>>)

\* CachedArticleRepository.SyncV1: draft write, then one published write.
SyncV1(st, art, env) ==
  LET artn == toEntity(art)
      w == IF art.id = 0 THEN Insert(st, artn, env.draft)
                         ELSE UpdateById(st, artn, env.draft)
      id == IF art.id = 0 THEN w.id ELSE art.id
      t1 == <<Call(IF art.id = 0 THEN "Insert" ELSE "UpdateById", id, w.err)>>
      artp == [artn EXCEPT !.id = id]
      u == Upsert(w.st, artp, env.pub[1])
  IN IF w.err # None THEN Ret(w.st, 0, w.err, t1)
     ELSE Ret(u.st, id, u.err, t1 \o <<Call("Upsert", artp.id, u.err)>>)

\* SyncV2 with the two adapters bound to the repository's own connection
\* instead of the transaction: the writes are not undone.
Mut_SyncV2_OutsideTx(st, art, env) ==
  LET r == SyncV1(st, art, env)
  IN Ret(r.st, IF r.err # None THEN 0 ELSE r.id, r.err, r.trace)

\* SyncV2 without the deferred rollback: a return before Commit leaves the
\* transaction as it is.
Mut_SyncV2_NoDeferredRollback(st, art, env) ==
  IF env.begin # None
  THEN Ret(st, 0, env.begin, <<Call("Begin", 0, env.begin)>>)
  ELSE
    LET tx == TxBegin(st)
        artn == toEntity(art)
        w == IF art.id = 0 THEN Insert(tx.work, artn, env.draft)
                           ELSE UpdateById(tx.work, artn, env.draft)
        id == IF art.id = 0 THEN w.id ELSE art.id
        t1 == <<Call("Begin", 0, None),
                Call(IF art.id = 0 THEN "Insert" ELSE "UpdateById", id, w.err)>>
        artp == [artn EXCEPT !.id = id]
        u == UpsertV2(w.st, artp, env.pub[1])
        t2 == t1 \o <<Call("Upsert", artp.id, u.err)>>
        c == TxCommit([tx EXCEPT !.work = u.st], env.commit)
    IN IF w.err # None THEN Ret(TxStored(tx), 0, w.err, t1)
       ELSE IF u.err # None THEN Ret(TxStored(tx), 0, u.err, t2)
       ELSE Ret(TxStored(c.tx), id, None, t2 \o <<Call("Commit", 0, c.err)>>)

\* CachedArticleRepository.SyncV2: both writes in one transaction, with the
\* rollback deferred to every return.
SyncV2(st, art, env) ==
  IF env.begin # None
  THEN Ret(st, 0, env.begin, <<Call("Begin", 0, env.begin)>>)
  ELSE
    LET tx == TxBegin(st)
        artn == toEntity(art)
        w == IF art.id = 0 THEN Insert(tx.work, artn, env.draft)
                           ELSE UpdateById(tx.work, artn, env.draft)
        id == IF art.id = 0 THEN w.id ELSE art.id
        t1 == <<Call("Begin", 0, None),
                Call(IF art.id = 0 THEN "Insert" ELSE "UpdateById", id, w.err)>>
        artp == [artn EXCEPT !.id = id]
        u == UpsertV2(w.st, artp, env.pub[1])
        t2 == t1 \o <<Call("Upsert", artp.id, u.err)>>
        c == TxCommit([tx EXCEPT !.work = u.st], env.commit)
        \* the deferred tx.Rollback() of each return
        rbDraft == TxRollback([tx EXCEPT !.work = w.st])
        rbPub == TxRollback([tx EXCEPT !.work = u.st])
        rbEnd == TxRollback(c.tx)
    IN IF w.err # None
       THEN Ret(TxStored(rbDraft.tx), 0, w.err, t1 \o <<Call("Rollback", 0, rbDraft.err)>>)
       ELSE IF u.err # None
       THEN Ret(TxStored(rbPub.tx), 0, u.err, t2 \o <<Call("Rollback", 0, rbPub.err)>>)
       ELSE Ret(TxStored(rbEnd.tx), id, None,
                t2 \o <<Call("Commit", 0, c.err), Call("Rollback", 0, rbEnd.err)>>)

\* CachedArticleRepository.Create.
Create(st, art, env) ==
  LET r == Insert(st, toEntity(art), env.draft)
  IN Ret(r.st, r.id, r.err, <<Call("Insert", r.id, r.err)>>)

\* CachedArticleRepository.Update.
Update(st, art, env) ==
  LET r == UpdateById(st, toEntity(art), env.draft)
  IN Ret(r.st, r.id, r.err, <<Call("UpdateById", art.id, r.err)>>)

\* CachedArticleAuthorRepository.Create.
AuthorCreate(st, art, env) ==
  LET r == Insert(st, AuthorToEntity(art), env.draft)
  IN Ret(r.st, r.id, r.err, <<Call("Insert", r.id, r.err)>>)

\* An Update that answers without error and writes nothing.
Mut_AuthorUpdate_NoWrite(st, art, env) ==
  Ret(st, art.id, None, <<Call("UpdateById", art.id, None)>>)

\* CachedArticleAuthorRepository.Update.
AuthorUpdate(st, art, env) ==
  LET r == UpdateById(st, AuthorToEntity(art), env.draft)
  IN Ret(r.st, r.id, r.err, <<Call("UpdateById", art.id, r.err)>>)

\* ArticleReaderRepository.Save: upsert into the published store.
ReaderSave(st, art, fail) == Upsert(st, ReaderToEntity(art), fail)

\* ----------------------------------------------------------------- service
\* Withdraw passing the status of a draft.
Mut_Withdraw_Unpublished(st, uid, id, env) ==
  SyncStatus(st, uid, id, ArticleStatusUnpublished, env)

\* articleService.Withdraw.
Withdraw(st, uid, id, env) == SyncStatus(st, uid, id, ArticleStatusPrivate, env)

\* articleService.create and articleService.update.
create(st, art, env) == Create(st, art, env)
update(st, art, env) == Update(st, art, env)

\* Save without art.Status = ArticleStatusUnpublished.
Mut_Save_StatusKept(st, art, env) ==
  LET r == update(st, art, env)
  IN IF art.id > 0 THEN Ret(r.st, art.id, r.err, r.trace)
     ELSE create(st, art, env)

\* articleService.Save.
Save(st, art, env) ==
  LET a == [art EXCEPT !.status = ArticleStatusUnpublished]
      r == update(st, a, env)
  IN IF a.id > 0 THEN Ret(r.st, a.id, r.err, r.trace)
     ELSE create(st, a, env)

\* The Sync the repository is built with: one of the three strategies.
RepoSync(sync, st, art, env) ==
  CASE sync = "Sync" -> Sync(st, art, env)
    [] sync = "SyncV1" -> SyncV1(st, art, env)
    [] sync = "SyncV2" -> SyncV2(st, art, env)

\* articleService.Publish.
Publish(sync, st, art, env) ==
  RepoSync(sync, st, [art EXCEPT !.status = ArticleStatusPublished], env)

\* One pass of PublishV1's loop body without the logger call.
Mut_Attempt_NotLogged(st, art, i, env, trace) ==
  LET s == ReaderSave(st, art, env.pub[i + 1])
  IN Ret(s.st, art.id, s.err, trace \o <<Call("Upsert", art.id, s.err)>>)

\* One pass of PublishV1's loop body (i counts from 0): a published write,
\* and on failure one record to the logger.
Attempt(st, art, i, env, trace) ==
  LET s == ReaderSave(st, art, env.pub[i + 1])
  IN IF s.err = None
     THEN Ret(s.st, art.id, None, trace \o <<Call("Upsert", art.id, None)>>)
     ELSE Ret(s.st, art.id, s.err,
              trace \o <<Call("Upsert", art.id, s.err), Call("Log", art.id, s.err)>>)

\* The retry loop of PublishV1 from pass i on; err is the error of the pass
\* before.  It ends at the first pass without error or after MaxAttempts.
RECURSIVE RetryLoop(_, _, _, _, _, _)
RetryLoop(st, art, i, err, env, trace) ==
  IF i >= MaxAttempts THEN Ret(st, art.id, err, trace)
  ELSE LET a == Attempt(st, art, i, env, trace)
       IN IF a.err = None THEN a
          ELSE RetryLoop(a.st, art, i + 1, a.err, env, a.trace)

\* PublishV1 without the check of err after the loop.
Mut_PublishV1_NoFinalCheck(st, art, env) ==
  LET w == IF art.id = 0 THEN AuthorCreate(st, art, env) ELSE AuthorUpdate(st, art, env)
      id == IF art.id = 0 THEN w.id ELSE art.id
      l == RetryLoop(w.st, [art EXCEPT !.id = id], 0, None, env, w.trace)
  IN IF w.err # None THEN Ret(w.st, 0, w.err, w.trace)
     ELSE Ret(l.st, id, None, l.trace)

\* articleService.PublishV1.
PublishV1(st, art, env) ==
  LET w == IF art.id = 0 THEN AuthorCreate(st, art, env) ELSE AuthorUpdate(st, art, env)
      id == IF art.id = 0 THEN w.id ELSE art.id
      l == RetryLoop(w.st, [art EXCEPT !.id = id], 0, None, env, w.trace)
  IN IF w.err # None THEN Ret(w.st, 0, w.err, w.trace)
     ELSE IF l.err # None THEN Ret(l.st, 0, l.err, l.trace \o <<Call("Log", id, l.err)>>)
     ELSE Ret(l.st, id, None, l.trace)

\* ------------------------------------------------------------ state machine
\* last: the facade call made last, with what it was given (the article and
\* the stores' answers), what it returned and the calls it made to the stores
\* and the logger, in order.
Last(op, sync, art, env, r) ==
  [op |-> op, sync |-> sync, art |-> art, env |-> env,
   ret |-> r.id, err |-> r.err, trace |-> r.trace]

\* Withdraw is given a caller and an identity only.
WithdrawArg(uid, id) ==
  [id |-> id, title |-> "", content |-> "", author |-> uid, status |-> ArticleStatusPrivate]

\* The draft store hands out identities up to MaxId only.
WithinBounds(r) ==
  \A i \in 1..Len(r.trace) : r.trace[i].call \in {"Insert", "Sync"} => r.trace[i].id <= MaxId

\* A call is taken while the bounds allow it.
Allowed(r) == calls < MaxCalls /\ WithinBounds(r)

Cur == DB(draft, pub, nextId)

\* The workers that serve requests side by side.
Procs == {1, 2}

\* A worker that serves no call.
Idle ==
  [pc |-> "idle", art |-> WithdrawArg(0, 0), id |-> 0, i |-> 0, err |-> None,
   ret |-> 0, trace |-> <<>>, overlap |-> FALSE]

\* Before any call.
NoCall ==
  [op |-> "init", sync |-> "", art |-> WithdrawArg(0, 0), env |-> NoFail,
   ret |-> 0, err |-> None, trace |-> <<>>]

Init ==
  /\ draft = <<>>
  /\ pub = <<>>
  /\ nextId = 1
  /\ calls = 0
  /\ last = NoCall
  /\ procs = [p \in Procs |-> Idle]

DoSave ==
  \E art \in Articles, env \in {NoFail, FailDraft} :
    LET r == Save(Cur, art, env)
    IN /\ Allowed(r)
       /\ draft' = r.st.draft
       /\ pub' = r.st.pub
       /\ nextId' = r.st.nextId
       /\ last' = Last("Save", "", art, env, r)
       /\ calls' = calls + 1
       /\ UNCHANGED procs

DoPublishSync ==
  \E art \in Articles, env \in {NoFail, FailDraft} :
    LET r == Publish("Sync", Cur, art, env)
    IN /\ Allowed(r)
       /\ draft' = r.st.draft
       /\ pub' = r.st.pub
       /\ nextId' = r.st.nextId
       /\ last' = Last("Publish", "Sync", art, env, r)
       /\ calls' = calls + 1
       /\ UNCHANGED procs

DoPublishSyncV1 ==
  \E art \in Articles, env \in {NoFail, FailDraft, FailPub(1)} :
    LET r == Publish("SyncV1", Cur, art, env)
    IN /\ Allowed(r)
       /\ draft' = r.st.draft
       /\ pub' = r.st.pub
       /\ nextId' = r.st.nextId
       /\ last' = Last("Publish", "SyncV1", art, env, r)
       /\ calls' = calls + 1
       /\ UNCHANGED procs

DoPublishSyncV2 ==
  \E art \in Articles, env \in {NoFail, FailBegin, FailDraft, FailPub(1), FailCommit} :
    LET r == Publish("SyncV2", Cur, art, env)
    IN /\ Allowed(r)
       /\ draft' = r.st.draft
       /\ pub' = r.st.pub
       /\ nextId' = r.st.nextId
       /\ last' = Last("Publish", "SyncV2", art, env, r)
       /\ calls' = calls + 1
       /\ UNCHANGED procs

DoPublishV1 ==
  \E art \in Articles, env \in {FailDraft} \cup {FailPub(k) : k \in 0..MaxAttempts} :
    LET r == PublishV1(Cur, art, env)
    IN /\ Allowed(r)
       /\ draft' = r.st.draft
       /\ pub' = r.st.pub
       /\ nextId' = r.st.nextId
       /\ last' = Last("PublishV1", "", art, env, r)
       /\ calls' = calls + 1
       /\ UNCHANGED procs

DoWithdraw ==
  \E uid \in Authors, id \in InputIds, env \in {NoFail, FailDraft} :
    LET r == Withdraw(Cur, uid, id, env)
    IN /\ Allowed(r)
       /\ draft' = r.st.draft
       /\ pub' = r.st.pub
       /\ nextId' = r.st.nextId
       /\ last' = Last("Withdraw", "", WithdrawArg(uid, id), env, r)
       /\ calls' = calls + 1
       /\ UNCHANGED procs

Next ==
  \/ DoSave
  \/ DoPublishSync
  \/ DoPublishSyncV1
  \/ DoPublishSyncV2
  \/ DoPublishV1
  \/ DoWithdraw

Spec == Init /\ [][Next]_vars

\* ------------------------------- PublishV1 by two workers, a store call a step
\* procs[p]: where worker p is in its PublishV1 call (pc), the article it was
\* given (art), the identity after the draft write (id), the loop counter
\* (i), the error of the last store call (err), what it returned (ret), the
\* calls it made to the stores and the logger (trace), and whether another
\* call ran while this one did (overlap).

\* The articles published side by side: one author, a new item or item 1.
ConcArticles == {a \in Articles : a.author = 1 /\ a.id \in {0, 1}}

\* The stores after one article was published.
Stored1 ==
  PublishV1(DB(<<>>, <<>>, 1),
            [id |-> 0, title |-> "A", content |-> "x", author |-> 1,
             status |-> ArticleStatusUnpublished], NoFail).st

Active(p) == procs[p].pc \in {"draft", "loop", "after"}

InitConc ==
  /\ \E st \in {DB(<<>>, <<>>, 1), Stored1} :
       /\ draft = st.draft
       /\ pub = st.pub
       /\ nextId = st.nextId
  /\ calls = 0
  /\ last = NoCall
  /\ procs = [p \in Procs |-> Idle]

\* A request reaches worker p: PublishV1 is called.
CallPublishV1(p) ==
  /\ procs[p].pc \in {"idle", "done"}
  /\ calls < MaxCalls
  /\ \E art \in ConcArticles :
       procs' = [q \in Procs |->
                   IF q = p
                   THEN [Idle EXCEPT !.pc = "draft", !.art = art,
                                     !.overlap = \E o \in Procs \ {p} : Active(o)]
                   ELSE IF Active(q) THEN [procs[q] EXCEPT !.overlap = TRUE]
                   ELSE procs[q]]
  /\ calls' = calls + 1
  /\ UNCHANGED <<draft, pub, nextId, last>>

\* PublishV1 up to the loop: the draft write and the copy of the identity.
DraftStep(p) ==
  LET me == procs[p]
  IN /\ me.pc = "draft"
     /\ \E env \in {NoFail, FailDraft} :
          LET w == IF me.art.id = 0 THEN AuthorCreate(Cur, me.art, env)
                                    ELSE AuthorUpdate(Cur, me.art, env)
              id == IF me.art.id = 0 THEN w.id ELSE me.art.id
          IN /\ WithinBounds(w)
             /\ draft' = w.st.draft
             /\ pub' = w.st.pub
             /\ nextId' = w.st.nextId
             /\ procs' = [procs EXCEPT ![p] =
                            IF w.err # None
                            THEN [me EXCEPT !.pc = "done", !.ret = 0, !.err = w.err,
                                            !.trace = w.trace]
                            ELSE [me EXCEPT !.pc = "loop", !.id = id, !.i = 0,
                                            !.trace = w.trace]]
     /\ UNCHANGED <<last, calls>>

\* One pass of the loop that does not leave it after a published write
\* without error.
Mut_LoopStep_NoBreak(p) ==
  LET me == procs[p]
  IN /\ me.pc = "loop"
     /\ me.i < MaxAttempts
     /\ \E env \in {NoFail, FailPub(MaxAttempts)} :
          LET a == Attempt(Cur, [me.art EXCEPT !.id = me.id], me.i, env, me.trace)
          IN /\ draft' = a.st.draft
             /\ pub' = a.st.pub
             /\ nextId' = a.st.nextId
             /\ procs' = [procs EXCEPT ![p] =
                            [me EXCEPT !.i = me.i + 1, !.err = a.err, !.trace = a.trace]]
     /\ UNCHANGED <<last, calls>>

\* One pass of PublishV1's loop: while i < 3, a published write; without
\* error the loop is left, with an error it is logged and i counts on.
LoopStep(p) ==
  LET me == procs[p]
  IN /\ me.pc = "loop"
     /\ me.i < MaxAttempts
     /\ \E env \in {NoFail, FailPub(MaxAttempts)} :
          LET a == Attempt(Cur, [me.art EXCEPT !.id = me.id], me.i, env, me.trace)
          IN /\ draft' = a.st.draft
             /\ pub' = a.st.pub
             /\ nextId' = a.st.nextId
             /\ procs' = [procs EXCEPT ![p] =
                            IF a.err = None
                            THEN [me EXCEPT !.pc = "after", !.err = None, !.trace = a.trace]
                            ELSE [me EXCEPT !.i = me.i + 1, !.err = a.err,
                                            !.trace = a.trace]]
     /\ UNCHANGED <<last, calls>>

\* PublishV1 after the loop: the check of err and the return.
ReturnStep(p) ==
  LET me == procs[p]
  IN /\ me.pc = "after" \/ (me.pc = "loop" /\ me.i >= MaxAttempts)
     /\ procs' = [procs EXCEPT ![p] =
                    IF me.err # None
                    THEN [me EXCEPT !.pc = "done", !.ret = 0,
                                    !.trace = me.trace \o <<Call("Log", me.id, me.err)>>]
                    ELSE [me EXCEPT !.pc = "done", !.ret = me.id]]
     /\ UNCHANGED <<draft, pub, nextId, last, calls>>

\* What worker p does next once it was called.
ProcStep(p) == DraftStep(p) \/ LoopStep(p) \/ ReturnStep(p)

NextConc ==
  \E p \in Procs :
    \/ CallPublishV1(p)
    \/ DraftStep(p)
    \/ LoopStep(p)
    \/ ReturnStep(p)

\* Every call runs on a worker of its own and every store call returns: a
\* worker that can take a step takes it.
SpecConc == InitConc /\ [][NextConc]_vars /\ \A p \in Procs : WF_vars(ProcStep(p))

\* ------------------------------------------------- reading the last call
DraftCalls == {"Insert", "UpdateById"}
\* The positions of the calls of the given names in the call's record.
CallsOf(l, names) == {i \in 1..Len(l.trace) : l.trace[i].call \in names}
FailedOf(l, names) == {i \in CallsOf(l, names) : l.trace[i].err # None}
OkOf(l, names) == {i \in CallsOf(l, names) : l.trace[i].err = None}
IsSyncV1(l) == l.op = "Publish" /\ l.sync = "SyncV1"
IsSyncV2(l) == l.op = "Publish" /\ l.sync = "SyncV2"
IsPublishV1(l) == l.op = "PublishV1"
\* The draft write of the call went through / was refused.
DraftWritten(l) == OkOf(l, DraftCalls) # {}
DraftRefused(l) == FailedOf(l, DraftCalls) # {}
\* The identity the draft write of the call wrote under.
DraftId(l) == l.trace[CHOOSE i \in OkOf(l, DraftCalls) : TRUE].id

\* ------------------------------------------------------------------ claims
\* C1: SyncV2 whose published-store write (UpsertV2) fails leaves the draft
\* store exactly as it was before the call, and returns an error.
C1_SyncV2RollsBackDraft ==
  [][(IsSyncV2(last') /\ FailedOf(last', {"Upsert"}) # {})
       => (draft' = draft /\ last'.err # None)]_vars

\* C1 witness: a SyncV2 whose draft update of an existing row with other
\* content went through inside the transaction and whose upsert then failed.
C1_Witness ==
  /\ IsSyncV2(last)
  /\ FailedOf(last, {"Upsert"}) # {}
  /\ OkOf(last, {"UpdateById"}) # {}
  /\ last.art.id \in DOMAIN draft
  /\ draft[last.art.id].title # last.art.title

\* C2: PublishV1 whose draft write succeeds and whose published write fails
\* on all 3 attempts returns an error, keeps the draft record it wrote, and
\* leaves the published store without a new or changed row.
C2_PublishV1PartialFailure ==
  [][(IsPublishV1(last') /\ DraftWritten(last')
        /\ Cardinality(FailedOf(last', {"Upsert"})) = MaxAttempts)
       => /\ last'.err # None
          /\ DraftId(last') \in DOMAIN draft'
          /\ draft'[DraftId(last')].title = last'.art.title
          /\ draft'[DraftId(last')].content = last'.art.content
          /\ draft'[DraftId(last')].author = last'.art.author
          /\ pub' = pub]_vars

\* C2 witness: a PublishV1 that inserted a draft row and saw all three
\* published writes fail.
C2_Witness ==
  /\ IsPublishV1(last)
  /\ OkOf(last, {"Insert"}) # {}
  /\ Cardinality(FailedOf(last, {"Upsert"})) = MaxAttempts
  /\ DraftId(last) \in DOMAIN draft
  /\ DraftId(last) \notin DOMAIN pub

\* Every published write of the call was refused.
NoPublishedWrite(l) == FailedOf(l, {"Upsert"}) # {} /\ OkOf(l, {"Upsert"}) = {}

\* C3: under strategy B a call whose draft write succeeded and whose every
\* published write failed returns the identity already assigned, non-zero,
\* with the error; a call whose draft write failed returns identity 0 with
\* the error.
C3_PartialFailureKeepsIdentity ==
  (IsPublishV1(last) \/ IsSyncV1(last)) =>
    /\ (DraftWritten(last) /\ NoPublishedWrite(last))
         => (last.err # None /\ last.ret # 0 /\ last.ret = DraftId(last))
    /\ DraftRefused(last) => (last.err # None /\ last.ret = 0)

\* C4: a successful SyncV1, SyncV2 or PublishV1 of an item with identity 0
\* makes exactly one draft insert and no draft update, returns the positive
\* identity the insert assigned, and makes every published write under that
\* identity; a row stored under it carries it.
C4_NewIdentityAssignedOnce ==
  ((IsSyncV1(last) \/ IsSyncV2(last) \/ IsPublishV1(last))
     /\ last.art.id = 0 /\ last.err = None) =>
    /\ Cardinality(CallsOf(last, {"Insert"})) = 1
    /\ CallsOf(last, {"UpdateById"}) = {}
    /\ last.ret > 0
    /\ last.ret = DraftId(last)
    /\ OkOf(last, {"Upsert"}) # {}
    /\ \A i \in CallsOf(last, {"Upsert"}) : last.trace[i].id = last.ret
    /\ \A i \in DOMAIN draft : draft[i].id = i
    /\ \A i \in DOMAIN pub : pub[i].id = i

\* C4 witness: a successful SyncV2 of a new item, stored in both stores
\* under the identity returned.
C4_Witness ==
  /\ IsSyncV2(last)
  /\ last.art.id = 0
  /\ last.err = None
  /\ last.ret \in DOMAIN draft
  /\ last.ret \in DOMAIN pub
  /\ pub[last.ret].title = last.art.title

\* C5: a Publish or PublishV1 of an item whose identity is not 0 makes no
\* draft insert and adds no draft row; its draft update and its published
\* writes are made under the identity passed in, and on success it returns
\* that identity.
C5_ExistingIdentityKept ==
  [][(last'.op \in {"Publish", "PublishV1"} /\ last'.art.id # 0)
       => /\ CallsOf(last', {"Insert"}) = {}
          /\ DOMAIN draft' = DOMAIN draft
          /\ nextId' = nextId
          /\ \A i \in CallsOf(last', {"UpdateById", "Upsert"}) :
               last'.trace[i].id = last'.art.id
          /\ last'.err = None => last'.ret = last'.art.id]_vars

\* C5 witness: a successful SyncV1 of an existing item that changed its
\* published row.
C5_Witness ==
  /\ IsSyncV1(last)
  /\ last.art.id \in Ids
  /\ last.err = None
  /\ OkOf(last, {"UpdateById"}) # {}
  /\ pub[last.art.id].title = last.art.title

\* C6: when the published store rejects the first k attempts (k in 0..2) and
\* accepts attempt k+1 after a successful draft write, PublishV1 returns the
\* item's identity without error, the published row is stored with the
\* item's content, and exactly k failure records went to the logger.
C6_RetryUntilAccepted ==
  \A k \in 0..(MaxAttempts - 1) :
    (IsPublishV1(last) /\ last.env = FailPub(k) /\ DraftWritten(last)) =>
      /\ last.err = None
      /\ last.ret = DraftId(last)
      /\ last.ret \in DOMAIN pub
      /\ pub[last.ret].title = last.art.title
      /\ pub[last.ret].content = last.art.content
      /\ Cardinality(CallsOf(last, {"Log"})) = k
      /\ Cardinality(CallsOf(last, {"Upsert"})) = k + 1

\* C6 witness: a PublishV1 whose first two published writes were rejected
\* and whose third was accepted.
C6_Witness ==
  /\ IsPublishV1(last)
  /\ last.env = FailPub(2)
  /\ DraftWritten(last)
  /\ Cardinality(FailedOf(last, {"Upsert"})) = 2
  /\ last.ret \in DOMAIN pub

\* C7: in SyncV1, SyncV2 and PublishV1 a failed draft write ends the call:
\* the draft write is made once, no published write follows, nothing goes
\* to the logger, and the call returns the draft store's error itself.
C7_DraftFailureAborts ==
  ((IsSyncV1(last) \/ IsSyncV2(last) \/ IsPublishV1(last)) /\ DraftRefused(last)) =>
    /\ Cardinality(CallsOf(last, DraftCalls)) = 1
    /\ CallsOf(last, {"Upsert", "Log", "Commit"}) = {}
    /\ \A i \in FailedOf(last, DraftCalls) : last.err = last.trace[i].err

\* C7 witness: a SyncV1 whose draft update of an identity without a row was
\* refused with NotFound.
C7_Witness ==
  /\ IsSyncV1(last)
  /\ FailedOf(last, {"UpdateById"}) # {}
  /\ last.err = ErrNotFound

\* C8: after a successful Publish or PublishV1 (one whose writes were
\* committed) the draft row and the published row of the identity returned
\* are stored with status Published, whatever status the item came with.
C8_PublishForcesPublished ==
  (last.op \in {"Publish", "PublishV1"} /\ last.err = None
     /\ FailedOf(last, {"Commit"}) = {}) =>
    /\ last.ret \in DOMAIN draft
    /\ draft[last.ret].status = ArticleStatusPublished
    /\ last.ret \in DOMAIN pub
    /\ pub[last.ret].status = ArticleStatusPublished

\* C9: Save leaves the published store as it was; on success the draft row
\* of the identity returned has status Unpublished and the item's title,
\* content and author, whatever status the item came with; for an item with
\* identity 0 the identity returned is the newly assigned one.
C9_SaveWritesDraftOnly ==
  [][last'.op = "Save"
       => /\ pub' = pub
          /\ last'.err = None
               => /\ last'.ret \in DOMAIN draft'
                  /\ draft'[last'.ret].status = ArticleStatusUnpublished
                  /\ draft'[last'.ret].title = last'.art.title
                  /\ draft'[last'.ret].content = last'.art.content
                  /\ draft'[last'.ret].author = last'.art.author
          /\ (last'.err = None /\ last'.art.id = 0)
               => /\ last'.ret > 0
                  /\ last'.ret \notin DOMAIN draft
                  /\ last'.ret = nextId]_vars

\* C9 witness: a successful Save of an item that came with status Published
\* and whose identity has a published row.
C9_Witness ==
  /\ last.op = "Save"
  /\ last.err = None
  /\ last.art.status = ArticleStatusPublished
  /\ last.ret \in DOMAIN pub
  /\ draft[last.ret].status = ArticleStatusUnpublished

\* C10: a Withdraw by a caller who is not the stored author fails, with
\* Forbidden when the store answers, and leaves both stores as they were; a
\* Withdraw by the author that succeeds sets the status of the item's rows
\* to Private and changes nothing else.
C10_WithdrawGuardedByAuthor ==
  [][(last'.op = "Withdraw" /\ last'.art.id \in DOMAIN draft)
       => /\ draft[last'.art.id].author # last'.art.author
               => /\ last'.err # None
                  /\ last'.env = NoFail => last'.err = ErrForbidden
                  /\ draft' = draft
                  /\ pub' = pub
          /\ (draft[last'.art.id].author = last'.art.author /\ last'.err = None)
               => /\ draft' = [draft EXCEPT ![last'.art.id].status = ArticleStatusPrivate]
                  /\ pub' = [i \in DOMAIN pub |->
                               IF i = last'.art.id
                               THEN [pub[i] EXCEPT !.status = ArticleStatusPrivate]
                               ELSE pub[i]]]_vars

\* C10 witness: a Withdraw of a published item refused with Forbidden.
C10_Witness ==
  /\ last.op = "Withdraw"
  /\ last.err = ErrForbidden
  /\ last.art.id \in DOMAIN pub
  /\ pub[last.art.id].status = ArticleStatusPublished
  /\ draft[last.art.id].author # last.art.author

\* The changes of a stored status the design allows, and the call that may
\* make each.
TransitionAllowed(old, new, op) ==
  \/ new = old
  \/ old = ArticleStatusUnpublished /\ new = ArticleStatusPublished
       /\ op \in {"Publish", "PublishV1"}
  \/ old = ArticleStatusPublished /\ new = ArticleStatusPrivate /\ op = "Withdraw"
  \/ new = ArticleStatusUnpublished /\ op = "Save"

\* C11: over any sequence of Save, Publish and Withdraw calls the stored
\* status of an item, in the draft store and in the published store, changes
\* only from Unpublished to Published by a publish, from Published to
\* Private by Withdraw, and from any status to Unpublished by Save; every
\* other attempted change leaves it as it was.
C11_OnlyValidTransitions ==
  [][/\ \A i \in DOMAIN draft \cap DOMAIN draft' :
          TransitionAllowed(draft[i].status, draft'[i].status, last'.op)
     /\ \A i \in DOMAIN pub \cap DOMAIN pub' :
          TransitionAllowed(pub[i].status, pub'[i].status, last'.op)]_vars

\* C12: a SyncV2 that returns a nil error has committed both writes: the
\* draft row and the published row of the identity returned are stored with
\* the item's content; a failed Commit is returned as an error.
C12_SyncV2SuccessIsCommitted ==
  (IsSyncV2(last) /\ last.err = None) =>
    /\ FailedOf(last, {"Commit"}) = {}
    /\ last.ret \in DOMAIN draft
    /\ last.ret \in DOMAIN pub
    /\ draft[last.ret].title = last.art.title
    /\ pub[last.ret].title = last.art.title

\* C15: whenever Save, Publish or PublishV1 returns an error together with
\* a non-zero identity, the draft write of that call was stored and its
\* published write was not; no call returns a non-zero identity with an
\* error when it wrote nothing.
C15_IdentityWithErrorIsPartialFailure ==
  (last.op \in {"Save", "Publish", "PublishV1"} /\ last.err # None /\ last.ret # 0) =>
    /\ DraftWritten(last)
    /\ last.ret \in DOMAIN draft
    /\ OkOf(last, {"Upsert"}) = {}

\* C17: Save and Sync agree on create versus update: a call that reaches
\* the draft store inserts a new row exactly when the item's identity is 0;
\* every other identity, negative ones included, takes the update path.
C17_CreateIffIdentityZero ==
  (last.op \in {"Save", "Publish", "PublishV1"} /\ CallsOf(last, DraftCalls) # {}) =>
    (CallsOf(last, {"Insert"}) # {} <=> last.art.id = 0)

Again(l, st) ==
  IF l.op = "PublishV1" THEN PublishV1(st, l.art, l.env)
  ELSE Publish(l.sync, st, l.art, l.env)

\* C16: publishing an existing item is idempotent: after Sync, SyncV1,
\* SyncV2 or PublishV1 of an item with a non-zero identity that the draft
\* store holds, the same call made again with the same item (the stores
\* answering the same way) leaves the draft store and the published store
\* as they are and returns the same result, and the published store holds
\* the one row of that identity; a published write of the retry loop made
\* again changes nothing either.
C16_PublishIdempotent ==
  (last.op \in {"Publish", "PublishV1"} /\ last.art.id \in DOMAIN draft) =>
    LET twice == Again(last, Cur)
        a == [last.art EXCEPT !.id = last.ret]
    IN /\ twice.st = Cur
       /\ twice.id = last.ret
       /\ twice.err = last.err
       /\ (IsPublishV1(last) /\ OkOf(last, {"Upsert"}) # {}) =>
            /\ ReaderSave(Cur, a, None).st = Cur
            /\ pub[a.id] = ReaderToEntity(a)

\* A publish of an item that was already stored has succeeded, and the
\* stores are what a second publish of the same item leaves.
C16_Witness ==
  /\ last.op \in {"Publish", "PublishV1"}
  /\ last.err = None
  /\ last.art.id \in DOMAIN pub
  /\ calls = 2
  /\ pub[last.art.id].title = last.art.title
  /\ IF last.op = "Publish"
     THEN Publish(last.sync, Cur, last.art, NoFail).st = Cur
     ELSE PublishV1(Cur, last.art, NoFail).st = Cur

\* The call recorded in l is a publish over two separate stores (SyncV1,
\* SyncV2 or PublishV1).
IsTwoStorePublish(l) == IsSyncV1(l) \/ IsSyncV2(l) \/ IsPublishV1(l)

\* A publish of a non-zero identity the draft store does not hold is
\* refused by the draft update (NotFound when the store answers at all),
\* and writes no row.
UnknownIdentityRefused ==
  (/\ IsTwoStorePublish(last')
   /\ last'.art.id # 0
   /\ last'.art.id \notin DOMAIN draft
   /\ OkOf(last', {"Begin"}) # {} \/ ~IsSyncV2(last')) =>
     /\ FailedOf(last', {"UpdateById"}) # {}
     /\ last'.err \in {ErrNotFound, ErrUnavailable}
     /\ last'.env.draft = None => last'.err = ErrNotFound
     /\ CallsOf(last', {"Upsert"}) = {}
     /\ draft' = draft
     /\ pub' = pub

\* C18 as stated: whatever calls and store failures came before, every
\* published row has a draft row with the same identity and the same
\* author, and a publish of an unknown non-zero identity fails at the draft
\* update and creates no published row.
C18_PublishedRowHasDraftOfAuthor ==
  [][/\ \A i \in DOMAIN pub' :
          /\ i \in DOMAIN draft'
          /\ draft'[i].id = pub'[i].id
          /\ draft'[i].author = pub'[i].author
     /\ UnknownIdentityRefused]_vars

\* C18 amended: every published row has a draft row with the same identity
\* (the two authors may differ), and a publish of an unknown non-zero
\* identity fails at the draft update and creates no published row.
C18_PublishedRowHasDraft ==
  [][/\ \A i \in DOMAIN pub' :
          /\ i \in DOMAIN draft'
          /\ draft'[i].id = pub'[i].id
     /\ UnknownIdentityRefused]_vars

\* With a published row stored, a publish of an identity the draft store
\* does not hold was refused with NotFound.
C18_Witness ==
  /\ IsTwoStorePublish(last)
  /\ last.art.id # 0
  /\ last.art.id \notin DOMAIN draft
  /\ last.err = ErrNotFound
  /\ DOMAIN pub # {}
  /\ \A i \in DOMAIN pub : i \in DOMAIN draft

\* The published writes of worker p's call so far are made one after
\* another, at most MaxAttempts of them, one for each pass of the loop, each
\* refused one logged before the next, none after one that was accepted;
\* after MaxAttempts refused ones the call returns the error.
AttemptsInOrder(p) ==
  LET me == procs[p]
      ups == CallsOf(me, {"Upsert"})
      ok == OkOf(me, {"Upsert"})
      failed == FailedOf(me, {"Upsert"})
  IN /\ Cardinality(ups) <= MaxAttempts
     /\ Cardinality(ups) = IF ok = {} THEN me.i ELSE me.i + 1
     /\ Cardinality(ok) <= 1
     /\ \A k \in ok : me.pc \in {"after", "done"} /\ \A j \in ups : j <= k
     /\ \A k \in failed : k < Len(me.trace) /\ me.trace[k + 1].call = "Log"
     /\ Cardinality(failed) = MaxAttempts =>
          /\ me.pc = "loop" => me.i >= MaxAttempts
          /\ me.pc = "done" => me.err # None /\ me.ret = 0

\* C13: the retry loop of PublishV1 always ends: the published writes of a
\* call are made strictly one after another, at most 3 a call, none after
\* the first accepted one, and the call returns after the third refused
\* one; a call that entered the loop returns.
C13_RetryLoopTerminates ==
  /\ [](\A p \in Procs : AttemptsInOrder(p))
  /\ \A p \in Procs : (procs[p].pc = "loop") ~> (procs[p].pc = "done")

\* A call has returned after three refused published writes while another
\* one returned after an accepted one.
C13_Witness ==
  \E p, q \in Procs :
    /\ procs[p].pc = "done"
    /\ Cardinality(FailedOf(procs[p], {"Upsert"})) = MaxAttempts
    /\ procs[q].pc = "done"
    /\ OkOf(procs[q], {"Upsert"}) # {}
    /\ FailedOf(procs[q], {"Upsert"}) # {}

\* Title and body of an article or of a stored row.
Payload(r) == <<r.title, r.content>>

\* Both workers were given the stored identity id with different content,
\* and both calls have returned without error.
BothPublished(id) ==
  /\ \A p \in Procs :
       /\ procs[p].pc = "done"
       /\ procs[p].err = None
       /\ procs[p].art.id = id
  /\ \A p, q \in Procs : p # q => Payload(procs[p].art) # Payload(procs[q].art)

\* The calls of the workers ran side by side.
Overlapped == \A p \in Procs : procs[p].overlap

\* C19 as stated: when two PublishV1 calls for the same stored identity with
\* different content ran side by side and both returned without error, the
\* draft row and the published row of that identity hold the same title and
\* body.
C19_ConcurrentPublishAgree ==
  \A id \in Ids : (BothPublished(id) /\ Overlapped) =>
    /\ id \in DOMAIN draft
    /\ id \in DOMAIN pub
    /\ Payload(draft[id]) = Payload(pub[id])

\* C19 amended: when two PublishV1 calls for the same stored identity with
\* different content both returned without error, the draft row holds the
\* title and body of one of the two calls and the published row holds the
\* title and body of one of the two calls, not always the same call; they
\* hold the same title and body when the two calls did not run side by side.
C19_EachRowFromOneCall ==
  \A id \in Ids : BothPublished(id) =>
    /\ id \in DOMAIN draft
    /\ id \in DOMAIN pub
    /\ \E p \in Procs : Payload(draft[id]) = Payload(procs[p].art)
    /\ \E p \in Procs : Payload(pub[id]) = Payload(procs[p].art)
    /\ (\A p \in Procs : ~procs[p].overlap) => Payload(draft[id]) = Payload(pub[id])

\* Two calls that ran side by side have both returned without error, and
\* the draft row is from one of them, the published row from the other.
C19_Witness ==
  \E id \in Ids, p, q \in Procs :
    /\ BothPublished(id)
    /\ Overlapped
    /\ p # q
    /\ Payload(draft[id]) = Payload(procs[p].art)
    /\ Payload(pub[id]) = Payload(procs[q].art)

====
